---- MODULE Spec2Model ----
(***************************************************************************)
(* A model of codingbat.py: the declaration translator (Converter), the    *)
(* assertion builder (Problem.make_asserts), the docstring wrap loop and   *)
(* the import scan of Problem._process, and the processed flag of          *)
(* CategoryPage.                                                           *)
(*                                                                         *)
(* Python strings are modelled as sequences of one-character strings, so   *)
(* that index, slicing, startswith, split and the regular expressions are  *)
(* computed character by character as the code computes them.              *)
(***************************************************************************)
EXTENDS Integers, Sequences, FiniteSets, TLC

VARIABLES
    arg,            \* the argument of the pure call under examination
    ret,            \* its outcome: pending, returned (val) or raised (err)
    docstring,      \* Problem._process: the stripped description text
    idx1,           \* Problem._process: start of the current line
    idx2,           \* Problem._process: scan position
    lettercount,    \* Problem._process: running count since the last cut
    docstringwrap,  \* Problem._process: lines produced so far
    cuts,           \* history: the values of idx2 at which a line was cut
    processed,      \* CategoryPage.processed
    problems,       \* CategoryPage.problems: the run whose Problems it holds
    prob,           \* Problem objects per run: name/text set or None
    task,           \* the async_process task of each Problem of each run
    runpc,          \* position of each CategoryPage.process run
    written         \* outcome of the last CategoryPage.write call

pureVars == <<arg, ret>>
wrapVars == <<docstring, idx1, idx2, lettercount, docstringwrap, cuts>>
catVars  == <<processed, problems, prob, task, runpc, written>>
vars     == <<arg, ret, docstring, idx1, idx2, lettercount, docstringwrap,
              cuts, processed, problems, prob, task, runpc, written>>

-----------------------------------------------------------------------------
(* Python str primitives on character sequences.                           *)

Min(a, b) == IF a < b THEN a ELSE b

\* s[a:b] with 0-based, non-negative a and b (clamped as Python clamps).
Slice(s, a, b) == SubSeq(s, a + 1, Min(b, Len(s)))

\* str.index / str.find for a single character: the 0-based position of
\* the first occurrence, or -1 when there is none (index raises ValueError).
Find(s, c) ==
    IF \E i \in 1..Len(s) : s[i] = c
    THEN (CHOOSE i \in 1..Len(s) : s[i] = c /\ \A j \in 1..(i - 1) : s[j] # c) - 1
    ELSE -1

StartsWith(s, p) == Len(s) >= Len(p) /\ SubSeq(s, 1, Len(p)) = p
EndsWith(s, p)   == Len(s) >= Len(p) /\ SubSeq(s, Len(s) - Len(p) + 1, Len(s)) = p

\* 0-based position of the first occurrence of the substring p, or -1.
FindSub(s, p) ==
    LET hits == {i \in 1..(Len(s) - Len(p) + 1) : SubSeq(s, i, i + Len(p) - 1) = p}
    IN  IF hits = {} THEN -1
        ELSE (CHOOSE i \in hits : \A j \in hits : i <= j) - 1

\* the `in` operator on strings
Contains(s, p) == FindSub(s, p) # -1

RECURSIVE Split(_, _)
\* str.split(sep): always at least one piece
Split(s, sep) ==
    LET p == FindSub(s, sep)
    IN  IF p = -1 THEN <<s>>
        ELSE <<Slice(s, 0, p)>> \o Split(Slice(s, p + Len(sep), Len(s)), sep)

RECURSIVE Join(_, _)
\* sep.join(list)
Join(list, sep) ==
    IF list = <<>> THEN <<>>
    ELSE IF Len(list) = 1 THEN list[1]
    ELSE list[1] \o sep \o Join(Tail(list), sep)

Letters == {"a","b","c","d","e","f","g","h","i","j","k","l","m","n","o","p",
            "q","r","s","t","u","v","w","x","y","z",
            "A","B","C","D","E","F","G","H","I","J","K","L","M","N","O","P",
            "Q","R","S","T","U","V","W","X","Y","Z"}
Digits  == {"0","1","2","3","4","5","6","7","8","9"}
\* the characters the regular expression class \w matches
WordChars == Letters \cup Digits \cup {"_"}

\* outcomes of a call
Pending      == [st |-> "pending",  val |-> <<>>, err |-> "none"]
Returned(v)  == [st |-> "returned", val |-> v,    err |-> "none"]
Raised(e)    == [st |-> "raised",   val |-> <<>>, err |-> e]

\* the length of the longest suffix of s made of \w characters
RECURSIVE WordSuffix(_)
WordSuffix(s) ==
    IF s = <<>> \/ s[Len(s)] \notin WordChars THEN 0
    ELSE 1 + WordSuffix(SubSeq(s, 1, Len(s) - 1))

-----------------------------------------------------------------------------
(* String literals of the program.                                         *)

sString  == <<"S","t","r","i","n","g">>
sInteger == <<"I","n","t","e","g","e","r">>
sMap     == <<"M","a","p">>
sboolean == <<"b","o","o","l","e","a","n">>
sBoolean == <<"B","o","o","l","e","a","n">>
sstr     == <<"s","t","r">>
sint     == <<"i","n","t">>
sDict    == <<"D","i","c","t">>
sbool    == <<"b","o","o","l">>
sList    == <<"L","i","s","t">>
slist    == <<"l","i","s","t">>
slen     == <<"l","e","n">>
smap     == <<"m","a","p">>
sstring  == <<"s","t","r","i","n","g">>
slength  == <<"l","e","n","g","t","h">>
smapping == <<"m","a","p","p","i","n","g">>
CommaSp  == <<",", " ">>
ColonSp  == <<":", " ">>

-----------------------------------------------------------------------------
(* Converter.type_conversion                                               *)

\* a table that lacks the boxed types
general_conversion_NoBoxed ==
    (sString :> sstr) @@ (sMap :> sDict) @@ (sboolean :> sbool)

general_conversion ==
    (sString :> sstr) @@ (sInteger :> sint) @@ (sMap :> sDict) @@
    (sboolean :> sbool) @@ (sBoolean :> sbool)

\* general_conversion[i] if i in general_conversion else i
Lookup(i) == IF i \in DOMAIN general_conversion THEN general_conversion[i] ELSE i

type_conversion(vartype) ==
    IF StartsWith(vartype, sMap) THEN
        IF Find(vartype, "<") = -1 \/ Find(vartype, ">") = -1
        THEN Raised("ValueError")
        ELSE LET attrs == Split(Slice(vartype, Find(vartype, "<") + 1,
                                      Find(vartype, ">")), CommaSp)
                 conv  == [i \in 1..Len(attrs) |-> Lookup(attrs[i])]
             IN  Returned(sDict \o <<"[">> \o Join(conv, CommaSp) \o <<"]">>)
    ELSE IF StartsWith(vartype, sList) THEN
        IF Find(vartype, "<") = -1 \/ Find(vartype, ">") = -1
        THEN Returned(slist)
        ELSE LET attr == Slice(vartype, Find(vartype, "<") + 1, Find(vartype, ">"))
             IN  Returned(sList \o <<"[">> \o Lookup(attr) \o <<"]">>)
    ELSE IF EndsWith(vartype, <<"[", "]">>) THEN
        Returned(sList \o <<"[">>
                 \o Lookup(Slice(vartype, 0, Len(vartype) - 2)) \o <<"]">>)
    ELSE Returned(Lookup(vartype))

-----------------------------------------------------------------------------
(* Converter.handle_params                                                 *)

\* re.search(r'(.+) (\w+)$', param): the name is the trailing run of \w
\* characters, which must be preceded by a space that itself has at least
\* one character before it; .+ is greedy and the match starts at 0.
ParamMatch(param) ==
    LET n == WordSuffix(param)
        s == Len(param) - n          \* 1-based position of the space
    IN  IF n >= 1 /\ s >= 2 /\ param[s] = " "
        THEN [matched |-> TRUE, paramtype |-> SubSeq(param, 1, s - 1),
              paramname |-> SubSeq(param, s + 1, Len(param))]
        ELSE [matched |-> FALSE, paramtype |-> <<>>, paramname |-> <<>>]

\* lines 64-69
Rename(paramname) ==
    IF paramname = sstr THEN sstring
    ELSE IF paramname = slen THEN slength
    ELSE IF paramname = smap THEN smapping
    ELSE paramname

\* a splitter that takes every comma for a boundary
IsBoundary_AnyComma(i, lcarrot_count, rcarrot_count, idx, n) ==
    i = "," \/ idx = n - 1

\* line 61, reached only when i is neither '<' nor '>'
IsBoundary(i, lcarrot_count, rcarrot_count, idx, n) ==
    (i = "," /\ lcarrot_count = rcarrot_count) \/ idx = n - 1

RECURSIVE params_loop(_, _, _, _, _, _)
\* the for loop of lines 56-71 from position idx (0-based) on
params_loop(paramstr, idx, lcarrot_count, rcarrot_count, split_idx, params) ==
    IF idx >= Len(paramstr) THEN Returned(params)
    ELSE LET i == paramstr[idx + 1] IN
        IF i = "<" THEN
            params_loop(paramstr, idx + 1, lcarrot_count + 1, rcarrot_count,
                        split_idx, params)
        ELSE IF i = ">" THEN
            params_loop(paramstr, idx + 1, lcarrot_count, rcarrot_count + 1,
                        split_idx, params)
        ELSE IF IsBoundary(i, lcarrot_count, rcarrot_count, idx, Len(paramstr)) THEN
            LET last  == IF idx = Len(paramstr) - 1 THEN 1 ELSE 0
                param == Slice(paramstr, split_idx, idx + last)
                m     == ParamMatch(param)
                conv  == type_conversion(m.paramtype)
            IN  IF ~m.matched THEN Raised("AttributeError")
                ELSE IF conv.st = "raised" THEN conv
                ELSE params_loop(paramstr, idx + 1, lcarrot_count, rcarrot_count,
                                 idx + 2,
                                 Append(params, Rename(m.paramname) \o ColonSp
                                                \o conv.val))
        ELSE params_loop(paramstr, idx + 1, lcarrot_count, rcarrot_count,
                         split_idx, params)

handle_params(paramstr) == params_loop(paramstr, 0, 0, 0, 0, <<>>)

-----------------------------------------------------------------------------
(* Converter.__init__ and Converter.convert                                *)

\* a constructor that keeps the first token of the declaration
Converter_init_KeepFirst(dec) ==
    IF Find(dec, " ") = -1 \/ Find(dec, ")") = -1 THEN Raised("ValueError")
    ELSE Returned(Slice(dec, 0, Find(dec, ")") + 1))

\* a constructor that uses str.find, which answers -1 and does not raise
Converter_init_Find(dec) ==
    Returned(Slice(dec, Find(dec, " ") + 1, Find(dec, ")") + 1))

\* self.dec = dec[dec.index(' ') + 1:dec.index(')') + 1]
Converter_init(dec) ==
    IF Find(dec, " ") = -1 \/ Find(dec, ")") = -1 THEN Raised("ValueError")
    ELSE Returned(Slice(dec, Find(dec, " ") + 1, Find(dec, ")") + 1))

\* re.search(r'(\w+)\(', dec): the 1-based positions of the '(' characters
\* that directly follow a \w character; the leftmost match ends at the least.
NameParens(dec) == {q \in 2..Len(dec) : dec[q] = "(" /\ dec[q - 1] \in WordChars}

namesearch(dec) ==
    IF NameParens(dec) = {} THEN [matched |-> FALSE, start |-> 0, name |-> <<>>]
    ELSE LET q == CHOOSE x \in NameParens(dec) : \A y \in NameParens(dec) : x <= y
             n == WordSuffix(SubSeq(dec, 1, q - 1))
         IN  [matched |-> TRUE, start |-> q - 1 - n,
              name |-> SubSeq(dec, q - n, q - 1)]

RECURSIVE LStrip(_)
LStrip(s) == IF s # <<>> /\ s[1] = " " THEN LStrip(Tail(s)) ELSE s
RECURSIVE RStrip(_)
RStrip(s) == IF s # <<>> /\ s[Len(s)] = " " THEN RStrip(SubSeq(s, 1, Len(s) - 1)) ELSE s
\* str.strip()
Strip(s) == LStrip(RStrip(s))

\* line 79: self.dec[self.dec.index('(') + 1:self.dec.index(')')]
ParamStr(dec) == Slice(dec, Find(dec, "(") + 1, Find(dec, ")"))

sDef   == <<"d","e","f"," ">>
sArrow == <<")"," ","-",">"," ">>
sPass  == <<":","\n"," "," "," "," ","p","a","s","s">>

\* Converter.convert on self.dec
convert_dec(dec) ==
    LET ns      == namesearch(dec)
        rettype == type_conversion(Strip(Slice(dec, 0, ns.start)))
        params  == handle_params(ParamStr(dec))
    IN  IF ~ns.matched THEN Raised("AttributeError")
        ELSE IF rettype.st = "raised" THEN rettype
        ELSE IF params.st = "raised" THEN params
        ELSE Returned(sDef \o ns.name \o <<"(">> \o Join(params.val, CommaSp)
                      \o sArrow \o rettype.val \o sPass)

\* Converter(decl).convert()
convert(decl) ==
    LET c == Converter_init(decl)
    IN  IF c.st = "raised" THEN c ELSE convert_dec(c.val)

-----------------------------------------------------------------------------
(* Idle values of the variables a specification does not use.              *)

IdlePure == arg = <<>> /\ ret = Pending
IdleWrap == /\ docstring = <<>> /\ idx1 = 0 /\ idx2 = 0 /\ lettercount = 0
            /\ docstringwrap = <<>> /\ cuts = <<>>
IdleCat  == /\ processed = FALSE /\ problems = 0 /\ prob = <<>> /\ task = <<>>
            /\ runpc = <<>> /\ written = "none"

-----------------------------------------------------------------------------
(* Specification SpecType: type_conversion applied to one type token.      *)

schar     == <<"c","h","a","r">>
sMapper   == <<"M","a","p","p","e","r">>
sListNode == <<"L","i","s","t","N","o","d","e">>
sBrackets == <<"[","]">>

\* the scalar type names of the problem set
Scalars == {sint, schar, sString, sInteger, sboolean, sBoolean}

ArrayOf(T)  == T \o sBrackets
ListOf(T)   == sList \o <<"<">> \o T \o <<">">>
MapOf(K, V) == sMap \o <<"<">> \o K \o CommaSp \o V \o <<">">>

Tokens ==
    {[kind |-> "scalar", parts |-> <<T>>, tok |-> T] : T \in Scalars}
    \cup {[kind |-> "array", parts |-> <<T>>, tok |-> ArrayOf(T)] : T \in Scalars}
    \cup {[kind |-> "list", parts |-> <<T>>, tok |-> ListOf(T)] : T \in Scalars}
    \cup {[kind |-> "map", parts |-> <<K, V>>, tok |-> MapOf(K, V)] :
             K \in Scalars, V \in Scalars}
    \cup {[kind |-> "barelist", parts |-> <<>>, tok |-> sList]}
    \cup {[kind |-> "name", parts |-> <<>>, tok |-> T] :
             T \in {sMap, sMapper, sListNode}}
    \cup {[kind |-> "nested", parts |-> <<>>, tok |-> T] :
             T \in {ArrayOf(sMap), ArrayOf(sListNode), ListOf(sMap),
                    ListOf(ListOf(sint))}}

InitType == arg \in Tokens /\ ret = Pending /\ IdleWrap /\ IdleCat

TypeConversion ==
    /\ ret.st = "pending"
    /\ ret' = type_conversion(arg.tok)
    /\ UNCHANGED <<arg, wrapVars, catVars>>

NextType == TypeConversion
SpecType == InitType /\ [][NextType]_vars

\* the reference scalar table of the claim
RefScalar(T) ==
    IF T = sString THEN sstr
    ELSE IF T = sInteger THEN sint
    ELSE IF T = sboolean \/ T = sBoolean THEN sbool
    ELSE T

RefType(a) ==
    IF a.kind = "scalar" THEN RefScalar(a.parts[1])
    ELSE IF a.kind = "barelist" THEN slist
    ELSE IF a.kind = "map"
        THEN sDict \o <<"[">> \o RefScalar(a.parts[1]) \o CommaSp
             \o RefScalar(a.parts[2]) \o <<"]">>
    ELSE sList \o <<"[">> \o RefScalar(a.parts[1]) \o <<"]">>

C4_NoErrorOutcome ==
    ret.st # "pending" =>
        /\ ret.st = "returned"
        /\ arg.tok \in DOMAIN general_conversion
              => ret.val = general_conversion[arg.tok]
        /\ (arg.kind \in {"scalar", "name"}
              /\ arg.tok \notin DOMAIN general_conversion) => ret.val = arg.tok

-----------------------------------------------------------------------------
(* Specification SpecParams: handle_params applied to one parameter list.  *)

MaxParams == 2

ParamTypes == {sint, sString, ArrayOf(sint), ListOf(sString),
               MapOf(sString, sInteger)}
ParamNames == {<<"a">>, sstr, slen, smap}
Params     == [type : ParamTypes, name : ParamNames]

SeqsUpTo(S, n) == UNION {[1..k -> S] : k \in 0..n}

\* the parameters written as '<type> <name>' and joined by ', '
ParamText(ps) ==
    Join([i \in 1..Len(ps) |-> ps[i].type \o <<" ">> \o ps[i].name], CommaSp)

InitParams ==
    /\ arg \in {[params |-> ps, text |-> ParamText(ps)] :
                    ps \in SeqsUpTo(Params, MaxParams)}
    /\ ret = Pending /\ IdleWrap /\ IdleCat

HandleParams ==
    /\ ret.st = "pending"
    /\ ret' = handle_params(arg.text)
    /\ UNCHANGED <<arg, wrapVars, catVars>>

NextParams == HandleParams
SpecParams == InitParams /\ [][NextParams]_vars

\* the renaming of the claim
RefName(n) ==
    IF n = sstr THEN sstring
    ELSE IF n = slen THEN slength
    ELSE IF n = smap THEN smapping
    ELSE n

\* C1: handle_params returns one entry per parameter, in input order, each
\* '<renamed name>: <type_conversion(type)>'; a comma inside Map<K, V> makes
\* no entry; the empty parameter list yields the empty sequence.
C1_OneEntryPerParam ==
    ret.st # "pending" =>
        ret = Returned([i \in 1..Len(arg.params) |->
                          RefName(arg.params[i].name) \o ColonSp
                          \o type_conversion(arg.params[i].type).val])

\* 'Map<String, Integer> map, int len' was split into exactly two entries
C1_Witness ==
    /\ arg.params = <<[type |-> MapOf(sString, sInteger), name |-> smap],
                      [type |-> sint, name |-> slen]>>
    /\ ret.st = "returned"
    /\ Len(ret.val) = 2
    /\ ret.val[1] = smapping \o ColonSp
                    \o <<"D","i","c","t","[","s","t","r",","," ","i","n","t","]">>
    /\ ret.val[2] = slength \o ColonSp \o sint

-----------------------------------------------------------------------------
(* Specification SpecConvert: Converter(decl).convert() on one declaration *)
(* assembled from a modifier, a return type, a name and a parameter list,  *)
(* well formed or with the spaces or a parenthesis taken out.              *)

MaxDeclParams == 2
MaxSpaces     == 2

spublic  == <<"p","u","b","l","i","c">>
ssumList == <<"s","u","m","L","i","s","t">>
stoDict  == <<"t","o","D","i","c","t">>
swordList == <<"w","o","r","d","L","i","s","t">>

Mods      == {<<>>, spublic}
\* what follows the ')' in the text of the page: nothing, or the body braces
Tails     == {<<>>, <<" ","{","}">>}
RetTypes  == {sint, sboolean, ArrayOf(sint), ListOf(sString),
              MapOf(sString, sInteger), sList}
FuncNames == {<<"f">>, ssumList, stoDict}
DeclParams ==
    {[type |-> sint, name |-> <<"a">>],
     [type |-> MapOf(sString, sInteger), name |-> smap],
     [type |-> ListOf(sString), name |-> sstr],
     [type |-> sint, name |-> swordList]}

Spaces(n) == [i \in 1..n |-> " "]
Prefix(mod) == IF mod = <<>> THEN <<>> ELSE mod \o <<" ">>
RECURSIVE RemoveSpaces(_)
RemoveSpaces(s) ==
    IF s = <<>> THEN <<>>
    ELSE IF s[1] = " " THEN RemoveSpaces(Tail(s))
    ELSE <<s[1]>> \o RemoveSpaces(Tail(s))

\* the text of a declaration of the given shape
DeclHead(shape, mod, rtype, sep, name, ps) ==
    LET P == ParamText(ps) IN
    IF shape = "ok" THEN
        Prefix(mod) \o rtype \o Spaces(sep) \o name \o <<"(">> \o P \o <<")">>
    ELSE IF shape = "glued" THEN
        RemoveSpaces(mod \o rtype) \o name \o <<"(">> \o P \o <<")">>
    ELSE IF shape = "bare" THEN
        name \o <<"(">> \o P \o <<")">>
    ELSE IF shape = "nolparen" THEN
        Prefix(mod) \o rtype \o Spaces(sep) \o name \o <<" ">> \o P \o <<")">>
    ELSE IF shape = "norparen" THEN
        Prefix(mod) \o rtype \o Spaces(sep) \o name \o <<"(">> \o P
    ELSE \* "noparens"
        Prefix(mod) \o rtype \o Spaces(sep) \o name \o <<" ">> \o P

Decl(shape, mod, rtype, sep, name, ps, tail) ==
    [shape |-> shape, mod |-> mod, rtype |-> rtype, sep |-> sep,
     name |-> name, params |-> ps,
     decl |-> DeclHead(shape, mod, rtype, sep, name, ps) \o tail]

WellFormedDecls ==
    {Decl("ok", mod, rtype, sep, name, ps, tail) :
        mod \in Mods, rtype \in RetTypes, sep \in 1..MaxSpaces,
        name \in FuncNames, ps \in SeqsUpTo(DeclParams, MaxDeclParams),
        tail \in Tails}

MalformedDecls ==
    {Decl(shape, mod, rtype, 1, name, ps, tail) :
        shape \in {"glued", "nolparen", "norparen", "noparens"},
        mod \in Mods, rtype \in RetTypes,
        name \in FuncNames, ps \in SeqsUpTo(DeclParams, MaxDeclParams),
        tail \in Tails}
    \cup {Decl("bare", <<>>, <<>>, 0, name, ps, tail) :
        name \in FuncNames, ps \in SeqsUpTo(DeclParams, MaxDeclParams),
        tail \in Tails}

InitConvert ==
    /\ arg \in WellFormedDecls \cup MalformedDecls
    /\ ret = Pending /\ IdleWrap /\ IdleCat

Convert ==
    /\ ret.st = "pending"
    /\ ret' = convert(arg.decl)
    /\ UNCHANGED <<arg, wrapVars, catVars>>

NextConvert == Convert
SpecConvert == InitConvert /\ [][NextConvert]_vars

\* 'def name(<entries joined by ", ">) -> <annotation>:' and a pass body
Stub(name, ps, annotation) ==
    <<"d","e","f"," ">> \o name \o <<"(">>
    \o Join(handle_params(ParamText(ps)).val, CommaSp)
    \o <<")"," ","-",">"," ">> \o annotation
    \o <<":","\n"," "," "," "," ","p","a","s","s">>

\* the text of s that follows its first space (nothing when it has none)
AfterFirstSpace(s) ==
    IF Find(s, " ") = -1 THEN <<>> ELSE SubSeq(s, Find(s, " ") + 2, Len(s))

C8_MalformedRaises ==
    (ret.st # "pending" /\ arg.shape # "ok") => ret.st = "raised"

\* a declaration with no space before its name was refused by the name
\* search, one with no ')' by the constructor
C8_Witness ==
    \/ arg.shape = "glued" /\ arg.params # <<>> /\ ret = Raised("AttributeError")
    \/ arg.shape = "norparen" /\ ret = Raised("ValueError")

-----------------------------------------------------------------------------
(* Problem.make_asserts                                                    *)

strue   == <<"t","r","u","e">>
sfalse  == <<"f","a","l","s","e">>
sTrue   == <<"T","r","u","e">>
sFalse  == <<"F","a","l","s","e">>
sEqEq   == <<"=","=">>
sGuard  == <<"i","f"," ","_","_","n","a","m","e","_","_"," ","=","="," ",
             "'","_","_","m","a","i","n","_","_","'",":">>
sAssert == <<"\n"," "," "," "," ","a","s","s","e","r","t"," ">>

\* a matcher that does not know the literal false
MatchAt_NoFalse(s) ==
    IF StartsWith(s, <<"→">>) THEN [n |-> 1, repl |-> sEqEq]
    ELSE IF StartsWith(s, strue) THEN [n |-> 4, repl |-> sTrue]
    ELSE [n |-> 0, repl |-> <<>>]

\* the pattern →|true|false tried at the head of s, with the replacement
\* conversions[x[0]] of lines 94-98; n = 0 when nothing matches there
MatchAt(s) ==
    IF StartsWith(s, <<"→">>) THEN [n |-> 1, repl |-> sEqEq]
    ELSE IF StartsWith(s, strue) THEN [n |-> 4, repl |-> sTrue]
    ELSE IF StartsWith(s, sfalse) THEN [n |-> 5, repl |-> sFalse]
    ELSE [n |-> 0, repl |-> <<>>]

RECURSIVE re_sub(_)
\* re.sub(r'→|true|false', lambda x: conversions[x[0]], s): the
\* non-overlapping matches are replaced from left to right
re_sub(s) ==
    IF s = <<>> THEN <<>>
    ELSE IF MatchAt(s).n > 0
        THEN MatchAt(s).repl \o re_sub(SubSeq(s, MatchAt(s).n + 1, Len(s)))
    ELSE <<s[1]>> \o re_sub(Tail(s))

RECURSIVE Concat(_)
\* ''.join(list)
Concat(list) == IF list = <<>> THEN <<>> ELSE list[1] \o Concat(Tail(list))

make_asserts(asserts) ==
    sGuard \o Concat([i \in 1..Len(asserts) |-> sAssert \o re_sub(asserts[i])])

-----------------------------------------------------------------------------
(* Specification SpecAsserts: make_asserts applied to a list of examples,  *)
(* each written as a sequence of fragments.                                *)

MaxExamples == 2

Fragments == {<<"f","(","1",")"," ">>, <<"→">>, strue, sfalse, <<"t","r","u">>}

\* an example is one fragment or two
Examples == {<<f>> : f \in Fragments} \cup {<<f, g>> : f \in Fragments, g \in Fragments}

InitAsserts ==
    /\ arg \in {[frags |-> es,
                 asserts |-> [i \in 1..Len(es) |-> Concat(es[i])]] :
                    es \in SeqsUpTo(Examples, MaxExamples)}
    /\ ret = Pending /\ IdleWrap /\ IdleCat

MakeAsserts ==
    /\ ret.st = "pending"
    /\ ret' = Returned(make_asserts(arg.asserts))
    /\ UNCHANGED <<arg, wrapVars, catVars>>

NextAsserts == MakeAsserts
SpecAsserts == InitAsserts /\ [][NextAsserts]_vars

\* the replacement of one fragment, as the claim states it
RefFragment(f) ==
    IF f = <<"→">> THEN <<"=","=">>
    ELSE IF f = strue THEN <<"T","r","u","e">>
    ELSE IF f = sfalse THEN <<"F","a","l","s","e">>
    ELSE f

RefExample(fs) == Concat([k \in 1..Len(fs) |-> RefFragment(fs[k])])

\* C5: make_asserts returns the guard line followed by one assertion per
\* example, in input order and with duplicates kept, the i-th being
\* 'assert ' plus the i-th example with → replaced by ==, true by True and
\* false by False; no example yields the guard line alone.
C5_OneAssertPerExample ==
    ret.st # "pending" =>
        Split(ret.val, <<"\n">>) =
            <<sGuard>> \o [i \in 1..Len(arg.frags) |->
                            <<" "," "," "," ","a","s","s","e","r","t"," ">>
                            \o RefExample(arg.frags[i])]

\* two examples, the second 'f(1) false' given twice over, were converted
C5_Witness ==
    /\ Len(arg.frags) = 2
    /\ arg.frags[1] = <<<<"→">>, strue>>
    /\ arg.frags[2] = <<<<"f","(","1",")"," ">>, sfalse>>
    /\ ret.st = "returned"
    /\ EndsWith(ret.val, <<"a","s","s","e","r","t"," ","=","=","T","r","u","e",
                           "\n"," "," "," "," ","a","s","s","e","r","t"," ",
                           "f","(","1",")"," ","F","a","l","s","e">>)

-----------------------------------------------------------------------------
(* The docstring wrap loop of Problem._process (lines 115-126), one        *)
(* iteration of the while loop per step.                                   *)

Width == 81

MaxWords == 3
WordLens == {0, 1, 40, 81, 82}

Word(n) == [i \in 1..n |-> "a"]

\* descriptions as .get_text().strip() leaves them: words separated by
\* single spaces (an empty word in the middle gives a double space), no
\* space at either end; the empty description is one of them
Texts ==
    {Join([i \in 1..Len(ws) |-> Word(ws[i])], <<" ">>) :
        ws \in {w \in SeqsUpTo(WordLens, MaxWords) :
                    w # <<>> => (w[1] # 0 /\ w[Len(w)] # 0)}}

InitWrap ==
    /\ docstring \in Texts
    /\ docstringwrap = <<>>
    /\ idx1 = 0 /\ idx2 = 0 /\ lettercount = 0
    /\ cuts = <<>>
    /\ IdlePure /\ IdleCat

\* a loop that cuts at the threshold whatever the character is
ShouldCut_AnyChar(doc, i2, count) ==
    count > Width \/ i2 = Len(doc) - 1

\* line 120
ShouldCut(doc, i2, count) ==
    (count > Width /\ doc[i2 + 1] = " ") \/ i2 = Len(doc) - 1

\* lines 119-125
WrapStep ==
    /\ idx2 < Len(docstring)
    /\ IF ShouldCut(docstring, idx2, lettercount)
       THEN /\ docstringwrap' = Append(docstringwrap,
                    Slice(docstring, idx1,
                          idx2 + (IF idx2 = Len(docstring) - 1 THEN 1 ELSE 0)))
            /\ idx1' = idx2 + 1
            /\ lettercount' = 0 + 1
            /\ cuts' = Append(cuts, idx2)
       ELSE /\ lettercount' = lettercount + 1
            /\ UNCHANGED <<docstringwrap, idx1, cuts>>
    /\ idx2' = idx2 + 1
    /\ UNCHANGED <<docstring, pureVars, catVars>>

sQuotes == <<"\"","\"","\"">>

\* line 126, after the loop
WrapJoin ==
    /\ ret.st = "pending"
    /\ idx2 >= Len(docstring)
    /\ ret' = Returned(sQuotes \o <<"\n">> \o Join(docstringwrap, <<"\n">>)
                       \o <<"\n">> \o sQuotes)
    /\ UNCHANGED <<arg, wrapVars, catVars>>

NextWrap == WrapStep \/ WrapJoin
SpecWrap == InitWrap /\ [][NextWrap]_vars
\* the loop is straight-line code of one synchronous call: it keeps running
SpecWrapFair == SpecWrap /\ WF_vars(NextWrap)

WrapDone == ret.st = "returned"

\* every line is non-empty and every cut is at a space or at the last
\* character of the text
C6_Safe ==
    /\ \A i \in 1..Len(docstringwrap) : Len(docstringwrap[i]) >= 1
    /\ \A i \in 1..Len(cuts) :
          \/ docstring[cuts[i] + 1] = " "
          \/ cuts[i] = Len(docstring) - 1
    /\ Len(cuts) = Len(docstringwrap)
    /\ (docstring # <<>> /\ idx2 >= Len(docstring)) => Len(docstringwrap) >= 1

\* C6: the wrap loop never splits inside a word and never produces an empty
\* line: every line boundary is a space of the input or the end of the
\* input, every produced line has at least one character, and the loop
\* terminates.
C6_WordRespectingAndTerminates == []C6_Safe /\ <>WrapDone

\* a text of three long words was wrapped into three lines
C6_Witness ==
    /\ WrapDone
    /\ Len(docstringwrap) = 3
    /\ Len(docstring) = 82 + 1 + 82 + 1 + 1
    /\ cuts = <<82, 165, 166>>

\* the 0-based position of the first space at or after position from whose
\* distance from `from` exceeds Width, or -1
FirstSpaceBeyond(doc, from) ==
    LET ok == {q \in from..(Len(doc) - 1) : doc[q + 1] = " " /\ q - from > Width}
    IN  IF ok = {} THEN -1 ELSE CHOOSE q \in ok : \A r \in ok : q <= r

LineStart(i) == IF i = 1 THEN 0 ELSE cuts[i - 1] + 1

\* C9: every line but the last, the first and the later ones alike, ends at
\* the first space whose character count from the start of the line exceeds
\* 81; so every such line has more than 81 characters, and the lines joined
\* by single spaces give back the text.
C9_SameCutRuleEveryLine ==
    WrapDone =>
        /\ \A i \in 1..(Len(docstringwrap) - 1) :
              /\ cuts[i] = FirstSpaceBeyond(docstring, LineStart(i))
              /\ Len(docstringwrap[i]) > Width
        /\ Join(docstringwrap, <<" ">>) = docstring

-----------------------------------------------------------------------------
(* Problem._process as one call: the declaration, the assertions, the      *)
(* wrapped docstring, the import scan and the assembled text.              *)

RECURSIVE wrap_loop(_, _, _, _, _)
\* the while loop of lines 119-125 run to its end
wrap_loop(doc, i1, i2, count, lines) ==
    IF i2 >= Len(doc) THEN lines
    ELSE IF ShouldCut(doc, i2, count)
        THEN wrap_loop(doc, i2 + 1, i2 + 1, 1,
                 Append(lines, Slice(doc, i1,
                     i2 + (IF i2 = Len(doc) - 1 THEN 1 ELSE 0))))
    ELSE wrap_loop(doc, i1, i2 + 1, count + 1, lines)

sFromTyping == <<"f","r","o","m"," ","t","y","p","i","n","g"," ",
                 "i","m","p","o","r","t"," ">>

\* lines 128-136
make_imports(decstr) ==
    LET imports == (IF Contains(decstr, sList) THEN <<sList>> ELSE <<>>)
                   \o (IF Contains(decstr, sDict) THEN <<sDict>> ELSE <<>>)
    IN  IF imports # <<>>
        THEN sFromTyping \o Join(imports, CommaSp) \o <<"\n">>
        ELSE <<>>

\* lines 103-137 on the fragments the page parser hands over
process_page(page) ==
    LET decstr  == convert(page.decl)
        asserts == make_asserts(page.asserts)
        doc     == sQuotes \o <<"\n">>
                   \o Join(wrap_loop(page.doc, 0, 0, 0, <<>>), <<"\n">>)
                   \o <<"\n">> \o sQuotes
        imports == make_imports(decstr.val)
    IN  IF decstr.st = "raised" THEN decstr
        ELSE Returned([decstr |-> decstr.val, imports |-> imports,
                       text |-> doc \o <<"\n">> \o imports \o <<"\n","\n">>
                                \o decstr.val \o <<"\n","\n","\n">>
                                \o asserts \o <<"\n">>])

-----------------------------------------------------------------------------
(* Specification SpecProcess: _process on one problem page.                *)

PageDocs    == {<<>>, <<"a"," ","b">>}
PageAsserts == {<<>>, <<<<"f","(","1",")"," ","→"," ","t","r","u","e">>>>}

InitProcess ==
    /\ arg \in {[parts |-> d,
                 page  |-> [decl |-> d.decl, doc |-> doc, asserts |-> as]] :
                    d \in WellFormedDecls
                          \cup {m \in MalformedDecls : m.shape = "bare"},
                    doc \in PageDocs, as \in PageAsserts}
    /\ ret = Pending /\ IdleWrap /\ IdleCat

Process ==
    /\ ret.st = "pending"
    /\ ret' = process_page(arg.page)
    /\ UNCHANGED <<arg, wrapVars, catVars>>

NextProcess == Process
SpecProcess == InitProcess /\ [][NextProcess]_vars

\* the annotations of the stub of 'M R name(P)'
Annotations(a) ==
    {type_conversion(a.rtype).val}
    \cup {type_conversion(a.params[i].type).val : i \in 1..Len(a.params)}

\* C7: the import line names List exactly when a List[...] type annotates a
\* parameter or the return value, Dict exactly when a Dict[...] type does,
\* both in the order List, Dict when both do, and is absent when neither
\* does, whatever the function name and the parameter names are.
C7_ImportsFollowAnnotations ==
    (ret.st = "returned" /\ arg.parts.shape = "ok" /\ arg.parts.mod = spublic) =>
        LET hasList == \E t \in Annotations(arg.parts) :
                           StartsWith(t, sList \o <<"[">>)
            hasDict == \E t \in Annotations(arg.parts) :
                           StartsWith(t, sDict \o <<"[">>)
            names   == (IF hasList THEN <<sList>> ELSE <<>>)
                       \o (IF hasDict THEN <<sDict>> ELSE <<>>)
        IN  ret.val.imports =
                IF names = <<>> THEN <<>>
                ELSE sFromTyping \o Join(names, CommaSp) \o <<"\n">>

-----------------------------------------------------------------------------
(* Specification SpecCategory: one CategoryPage, its process coroutines,   *)
(* the async_process tasks they start and write calls, interleaved at the  *)
(* await points.  A Problem is abstracted to whether its name and its text *)
(* are set; the Problems a run creates are prob[r], and problems names the *)
(* run whose list self.problems currently is (0: the empty initial list).  *)

MaxRuns  == 2
MaxProbs == 2

Runs == 1..MaxRuns

NewProblem == [name |-> FALSE, text |-> FALSE]

InitCategory ==
    /\ processed = FALSE
    /\ problems = 0
    /\ prob = [r \in Runs |-> <<>>]
    /\ task = [r \in Runs |-> <<>>]
    /\ runpc = [r \in Runs |-> "idle"]
    /\ written = "none"
    /\ IdlePure /\ IdleWrap

\* the Problems self.problems holds
CurrentProblems == IF problems = 0 THEN <<>> ELSE prob[problems]

\* line 168: process is called and awaits the category page
ProcessStart(r) ==
    /\ runpc[r] = "idle"
    /\ runpc' = [runpc EXCEPT ![r] = "fetching"]
    /\ UNCHANGED <<processed, problems, prob, task, written, pureVars, wrapVars>>

\* lines 168-169: the fetch of the category page fails
ProcessFetchFail(r) ==
    /\ runpc[r] = "fetching"
    /\ runpc' = [runpc EXCEPT ![r] = "raised"]
    /\ UNCHANGED <<processed, problems, prob, task, written, pureVars, wrapVars>>

\* lines 169-174: the page arrives with n problem links; the Problems are
\* created, a task is started for each and the run awaits gather
ProcessPage(r, n) ==
    /\ runpc[r] = "fetching"
    /\ prob' = [prob EXCEPT ![r] = [i \in 1..n |-> NewProblem]]
    /\ task' = [task EXCEPT ![r] = [i \in 1..n |-> "scheduled"]]
    /\ problems' = r
    /\ runpc' = [runpc EXCEPT ![r] = "gathering"]
    /\ UNCHANGED <<processed, written, pureVars, wrapVars>>

\* lines 142-144: the task starts; a Problem with a text returns at once
TaskStart(r, i) ==
    /\ task[r][i] = "scheduled"
    /\ task' = [task EXCEPT ![r][i] =
                   IF prob[r][i].text THEN "done" ELSE "fetching"]
    /\ UNCHANGED <<processed, problems, prob, runpc, written, pureVars, wrapVars>>

\* lines 145-146: the page arrives and _process sets name and text
TaskProcess(r, i) ==
    /\ task[r][i] = "fetching"
    /\ prob' = [prob EXCEPT ![r][i] = [name |-> TRUE, text |-> TRUE]]
    /\ task' = [task EXCEPT ![r][i] = "done"]
    /\ UNCHANGED <<processed, problems, runpc, written, pureVars, wrapVars>>

\* lines 144-146: the fetch raises, or _process raises before line 106 has
\* set the name (nameSet false) or after it, in Converter (nameSet true)
TaskFail(r, i, nameSet) ==
    /\ task[r][i] = "fetching"
    /\ prob' = [prob EXCEPT ![r][i] = [name |-> nameSet, text |-> FALSE]]
    /\ task' = [task EXCEPT ![r][i] = "failed"]
    /\ UNCHANGED <<processed, problems, runpc, written, pureVars, wrapVars>>

\* lines 174-175: every task is done, gather returns
GatherReturn(r) ==
    /\ runpc[r] = "gathering"
    /\ \A i \in 1..Len(task[r]) : task[r][i] = "done"
    /\ processed' = TRUE
    /\ runpc' = [runpc EXCEPT ![r] = "returned"]
    /\ UNCHANGED <<problems, prob, task, written, pureVars, wrapVars>>

\* line 174: gather re-raises the first exception of a task; the other
\* tasks keep running
GatherRaise(r) ==
    /\ runpc[r] = "gathering"
    /\ \E i \in 1..Len(task[r]) : task[r][i] = "failed"
    /\ runpc' = [runpc EXCEPT ![r] = "raised"]
    /\ UNCHANGED <<processed, problems, prob, task, written, pureVars, wrapVars>>

\* lines 177-187: write is synchronous; f.write(None) raises TypeError
Write ==
    /\ written' =
          IF ~processed THEN "ProcessingError"
          ELSE IF \E i \in 1..Len(CurrentProblems) : ~CurrentProblems[i].text
              THEN "TypeError"
          ELSE "ok"
    /\ UNCHANGED <<processed, problems, prob, task, runpc, pureVars, wrapVars>>

NextCategory ==
    \/ \E r \in Runs : ProcessStart(r)
    \/ \E r \in Runs : ProcessFetchFail(r)
    \/ \E r \in Runs, n \in 0..MaxProbs : ProcessPage(r, n)
    \/ \E r \in Runs, i \in 1..MaxProbs : i <= Len(task[r]) /\ TaskStart(r, i)
    \/ \E r \in Runs, i \in 1..MaxProbs : i <= Len(task[r]) /\ TaskProcess(r, i)
    \/ \E r \in Runs, i \in 1..MaxProbs, nameSet \in BOOLEAN :
          i <= Len(task[r]) /\ TaskFail(r, i, nameSet)
    \/ \E r \in Runs : GatherReturn(r)
    \/ \E r \in Runs : GatherRaise(r)
    \/ Write

SpecCategory == InitCategory /\ [][NextCategory]_vars

\* C10: whenever processed is True every Problem of problems has a name and
\* a text, so write raises ProcessingError or writes processed problems only.
C10_ProcessedMeansAllProcessed ==
    /\ processed =>
          \A i \in 1..Len(CurrentProblems) :
              CurrentProblems[i].name /\ CurrentProblems[i].text
    /\ written \in {"none", "ProcessingError", "ok"}

====
